---------------------------- MODULE Spec2Model ----------------------------
(***************************************************************************)
(* Build job orchestrator of the arch-ide rust-server:                     *)
(*   routes/build.rs   (build, build_status)                               *)
(*   routes/deploy.rs  (deploy)                                            *)
(*   build_tracker.rs  (BuildTracker)                                      *)
(*   program.rs        (build, upload_to_gcs, download_from_gcs,           *)
(*                      get_binary)                                        *)
(*                                                                         *)
(* Text is modelled as a sequence of tokens.  A program name and a file    *)
(* path are sequences of one-character strings; captured toolchain output  *)
(* is a sequence of words, blanks and "\n".  A substring test is a test    *)
(* for a contiguous run of tokens.                                         *)
(***************************************************************************)
EXTENDS Integers, Sequences, FiniteSets, TLC

VARIABLES
    builds,     \* BuildTracker.builds: uuid -> BuildInfo (a partial map)
    tasks,      \* the live background build tasks (tokio::spawn in routes/build.rs)
    uploads,    \* the live detached upload tasks (tokio::spawn in program.rs)
    fs,         \* files under programs/: path -> content (a partial map)
    gcs,        \* objects of the remote bucket: object name -> content
    useGcs,     \* whether the environment variable USE_GCS is set
    admitted,   \* how many build requests were admitted so far
    proc        \* the toolchain child process and the runner's drain state

vars == <<builds, tasks, uploads, fs, gcs, useGcs, admitted, proc>>

--------------------------------------------------------------------------
(* Bounds of the model *)

\* How many build requests are admitted in one behaviour.
MaxBuilds == 2

\* Lines the child writes in one run of the fine-grained runner model.
MaxWrites == 2

\* Lines an OS pipe holds before a write to it blocks.
PipeCap == 1

\* The number of calls of the tracker's methods in the tracker model.
MaxCalls == 3

--------------------------------------------------------------------------
(* Program constants *)

MAX_FILE_AMOUNT == 64

MAX_PATH_LENGTH == 128

--------------------------------------------------------------------------
(* Text *)

\* s contains pat as a contiguous run (str::contains).
Contains(s, pat) ==
    \E i \in 0..(Len(s) - Len(pat)) :
        \A j \in 1..Len(pat) : s[i + j] = pat[j]

StartsWith(s, pat) ==
    /\ Len(s) >= Len(pat)
    /\ \A j \in 1..Len(pat) : s[j] = pat[j]

EndsWith(s, pat) ==
    /\ Len(s) >= Len(pat)
    /\ \A j \in 1..Len(pat) : s[Len(s) - Len(pat) + j] = pat[j]

Letters == {"a", "b", "c", "e", "h", "i", "l", "o", "p", "r", "s", "t", "w", "d"}

Digits == {"0", "1"}

\* char::is_alphanumeric
IsAlphanumeric(c) == c \in Letters \cup Digits

\* The regex class \w
IsWordChar(c) == IsAlphanumeric(c) \/ c = "_"

\* program_name.replace(|c: char| !c.is_alphanumeric(), "_")
Sanitize(name) ==
    [i \in 1..Len(name) |-> IF IsAlphanumeric(name[i]) THEN name[i] ELSE "_"]

--------------------------------------------------------------------------
(* Inputs *)

\* Option<T>: None is <<>>, Some(x) is <<x>>.
None == <<>>

Some(x) == <<x>>

\* Strings that Uuid::try_parse accepts.
Uuids == {"u1", "u2"}

\* A string that Uuid::try_parse rejects.
BadUuid == "not-a-uuid"

\* Uuid::try_parse(&uuid).is_ok()
IsUuid(s) == s \in Uuids

\* "hello"
NameHello == <<"h", "e", "l", "l", "o">>

\* "a-b"
NameDash == <<"a", "-", "b">>

\* The names builds are submitted with, and the names artifacts are asked for.
ProgramNames == {NameDash}

ArtifactNames == {NameDash, NameHello}

\* "/src/lib.rs"
PathLib == <<"/", "s", "r", "c", "/", "l", "i", "b", ".", "r", "s">>

\* "/src/../etc/passwd"
PathTraversal ==
    <<"/", "s", "r", "c", "/", ".", ".", "/", "e", "t", "c", "/",
      "p", "a", "s", "s", "w", "d">>

\* "/src//a.rs"
PathEmptySegment == <<"/", "s", "r", "c", "/", "/", "a", ".", "r", "s">>

\* "/src/aaa...a.rs", one character longer than MAX_PATH_LENGTH
PathTooLong ==
    <<"/", "s", "r", "c", "/">>
        \o [i \in 1..(MAX_PATH_LENGTH + 1 - 8) |-> "a"]
        \o <<".", "r", "s">>

\* Files = Vec<[String; 2]>: a sequence of <<path, content>>
FilesOk == << <<PathLib, "lib-source">> >>

FilesOk2 == << <<PathLib, "lib-source-2">> >>

FilesTraversal == << <<PathLib, "lib-source">>, <<PathTraversal, "x">> >>

FilesEmptySegment == << <<PathEmptySegment, "x">> >>

FilesTooLong == << <<PathTooLong, "x">> >>

FilesTooMany == [i \in 1..(MAX_FILE_AMOUNT + 1) |-> <<PathLib, "lib-source">>]

\* As many entries as the limit allows.
FilesMax == [i \in 1..MAX_FILE_AMOUNT |-> <<PathLib, "lib-source">>]

--------------------------------------------------------------------------
(* build_tracker.rs *)

\* chrono::Utc::now(): the tracker reads the clock once in each write.  An
\* instant is named by the read that took it (the operation, and the
\* build task it belongs to): two reads give two instants.
Instant(op, seq) == [by |-> op, seq |-> seq]

\* A start_build that registers the build as Queued.
start_build_Queued(b, uuid, program_name, t) ==
    [u \in (DOMAIN b) \cup {uuid} |->
        IF u = uuid
        THEN [uuid |-> uuid,
              program_name |-> program_name,
              status |-> "Queued",
              stderr |-> None,
              started_at |-> t,
              completed_at |-> None]
        ELSE b[u]]

\* BuildTracker::start_build: insert, replacing any entry of the same uuid.
start_build(b, uuid, program_name, t) ==
    [u \in (DOMAIN b) \cup {uuid} |->
        IF u = uuid
        THEN [uuid |-> uuid,
              program_name |-> program_name,
              status |-> "Building",
              stderr |-> None,
              started_at |-> t,
              completed_at |-> None]
        ELSE b[u]]

\* A complete_build that drops the entry of a build that failed.
complete_build_Evicts(b, uuid, stderr, program_name, success, t) ==
    IF uuid \in DOMAIN b
    THEN IF success
         THEN [b EXCEPT ![uuid] =
                 [@ EXCEPT !.status = "Success",
                           !.stderr = Some(stderr),
                           !.program_name = program_name,
                           !.completed_at = Some(t)]]
         ELSE [u \in (DOMAIN b) \ {uuid} |-> b[u]]
    ELSE b

\* BuildTracker::complete_build: update the entry when there is one.
complete_build(b, uuid, stderr, program_name, success, t) ==
    IF uuid \in DOMAIN b
    THEN [b EXCEPT ![uuid] =
            [@ EXCEPT !.status = IF success THEN "Success" ELSE "Failed",
                      !.stderr = Some(stderr),
                      !.program_name = program_name,
                      !.completed_at = Some(t)]]
    ELSE b

\* BuildTracker::get_build
get_build(b, uuid) == IF uuid \in DOMAIN b THEN Some(b[uuid]) ELSE None

--------------------------------------------------------------------------
(* program.rs: validation and staging *)

\* The regex ^/src/[\w/-]+\.rs$
AllowedRegexMatch(path) ==
    /\ Len(path) >= 5 + 1 + 3
    /\ StartsWith(path, <<"/", "s", "r", "c", "/">>)
    /\ EndsWith(path, <<".", "r", "s">>)
    /\ \A i \in 6..(Len(path) - 3) :
          IsWordChar(path[i]) \/ path[i] = "/" \/ path[i] = "-"

\* A validation that checks the length only.
IsValidPath_LengthOnly(path) == Len(path) <= MAX_PATH_LENGTH

\* The closure of files.iter().all(..)
IsValidPath(path) ==
    /\ AllowedRegexMatch(path)
    /\ Len(path) <= MAX_PATH_LENGTH
    /\ ~Contains(path, <<".", ".">>)
    /\ ~Contains(path, <<"/", "/">>)

\* A count check that is off by one.
TooManyFiles_OffByOne(files) == Len(files) >= MAX_FILE_AMOUNT

TooManyFiles(files) == Len(files) > MAX_FILE_AMOUNT

AllPathsValid(files) == \A i \in 1..Len(files) : IsValidPath(files[i][1])

\* anyhow!("Exceeded maximum file amount({MAX_FILE_AMOUNT})")
ErrTooManyFiles ==
    <<"Exceeded maximum file amount(", ToString(MAX_FILE_AMOUNT), ")">>

\* anyhow!("Invalid path")
ErrInvalidPath == <<"Invalid path">>

\* path.trim_start_matches('/')
RECURSIVE TrimStartSlash(_)
TrimStartSlash(path) ==
    IF Len(path) > 0 /\ Head(path) = "/"
    THEN TrimStartSlash(Tail(path))
    ELSE path

\* Path::new(PROGRAMS_DIR).join(uuid).join(rel): joining an absolute path
\* replaces the path it is joined to.
ProgramFile(uuid, rel) ==
    IF rel # <<>> /\ rel[1] = "/" THEN rel ELSE <<uuid, "/">> \o rel

ManifestPath(uuid) == ProgramFile(uuid, <<"Cargo.toml">>)

\* program_path.join("target/deploy").join(format!("{}.so", name))
BinaryPath(uuid, safe_name) ==
    ProgramFile(uuid, <<"target/deploy/">> \o safe_name \o <<".so">>)

\* A write that keeps the content of a file that exists.
FsWrite_KeepExisting(f, path, content) == f @@ (path :> content)

\* fs::write(path, content)
FsWrite(f, path, content) == (path :> content) @@ f

\* The loop "for [path, content] in files": the entries are written in
\* order, so a file holds the content of the last entry that names it.
WriteSourceFiles(f, uuid, files) ==
    LET file_path(i) == ProgramFile(uuid, TrimStartSlash(files[i][1]))
        written == {file_path(i) : i \in 1..Len(files)}
        last(p) == CHOOSE i \in 1..Len(files) :
                      /\ file_path(i) = p
                      /\ \A j \in (i + 1)..Len(files) : file_path(j) # p
    IN  [p \in written |-> files[last(p)][2]] @@ f

\* CARGO_TOML_TEMPLATE.replace("{}", &safe_program_name)
CargoToml(safe_name) == [package |-> safe_name]

\* The files of programs/{uuid}/ after staging: the sources, then the manifest.
StageFiles(f, uuid, program_name, files) ==
    FsWrite(WriteSourceFiles(f, uuid, files),
            ManifestPath(uuid), CargoToml(Sanitize(program_name)))

--------------------------------------------------------------------------
(* program.rs: the toolchain and what build() returns *)

\* Lines the toolchain prints.
LineFinished == <<"Finished", " ", "release">>

\* The backquote character.
Backquote == "<backquote>"

LineFinishedQuoted == <<"Finished", " ", Backquote, "release", Backquote>>

LineCouldNotCompile == <<"error: could not compile">>

LineWarning == <<"warning: unused variable">>

Lines == {LineFinished, LineFinishedQuoted, LineCouldNotCompile, LineWarning}

\* lines.push_str(&line); lines.push('\n')
PushLine(text, line) == text \o line \o <<"\n">>

\* A stream read to its end: every line pushed in order.
RECURSIVE ReadAllLines(_, _)
ReadAllLines(text, ls) ==
    IF ls = <<>> THEN text ELSE ReadAllLines(PushLine(text, Head(ls)), Tail(ls))

\* getrandom_diag after "cargo tree -i getrandom" ran and printed `out`.
DiagTreeRan(out) == <<"\n--- cargo tree -i getrandom ---\n">> \o out

\* getrandom_diag after "cargo tree" could not be run.
DiagTreeFailed ==
    <<"\n--- cargo tree -i getrandom failed ---\n", "Failed to run cargo tree: ",
      "No such file or directory (os error 2)">>

GetrandomDiags == {DiagTreeRan(<<>>), DiagTreeFailed}

\* The source files of programs/{uuid}/src/ with their contents.
Sources(f, uuid) ==
    {<<p, f[p]>> : p \in {q \in DOMAIN f :
                            StartsWith(q, <<uuid, "/", "s", "r", "c", "/">>)}}

\* The bytes cargo-build-sbf produces from the sources it finds.
Compile(f, uuid) == [elf |-> Sources(f, uuid)]

\* The child's effect on the file system: when it compiles, it writes
\* {package name}.so, the package named by the manifest it reads, to the
\* --sbf-out-dir.
ChildWritesBinary(f, uuid, compiles) ==
    IF compiles /\ ManifestPath(uuid) \in DOMAIN f
    THEN FsWrite(f, BinaryPath(uuid, f[ManifestPath(uuid)].package), Compile(f, uuid))
    ELSE f

\* stdout_lines.contains("Finished release") || stderr_lines.contains(..)
MarkerSeen(stdout_lines, stderr_lines) ==
    \/ Contains(stdout_lines, <<"Finished", " ", "release">>)
    \/ Contains(stderr_lines, <<"Finished", " ", "release">>)

\* What build() returns: Ok((stderr, name)) or Err(err).
BuildOk(stderr, name) == [ok |-> TRUE, stderr |-> stderr, name |-> name, err |-> <<>>]

BuildErr(err) == [ok |-> FALSE, stderr |-> <<>>, name |-> <<>>, err |-> err]

\* program.rs after child.wait(): the value build() returns.
BuildReturn(safe_name, stdout_lines, stderr_lines, exit_ok, getrandom_diag) ==
    IF ~exit_ok /\ ~MarkerSeen(stdout_lines, stderr_lines)
    THEN BuildOk(IF getrandom_diag # <<>>
                 THEN stderr_lines \o getrandom_diag \o <<"\n">>
                 ELSE stderr_lines,
                 safe_name)
    ELSE BuildOk(stderr_lines, safe_name)

\* program.rs after child.wait(): the upload tasks build() spawns.
BuildUploads(f, gcsOn, uuid, safe_name, stdout_lines, stderr_lines, exit_ok) ==
    IF /\ exit_ok \/ MarkerSeen(stdout_lines, stderr_lines)
       /\ BinaryPath(uuid, safe_name) \in DOMAIN f
       /\ gcsOn
    THEN {[uuid |-> uuid, program_name |-> safe_name,
           data |-> f[BinaryPath(uuid, safe_name)]]}
    ELSE {}

\* format!("binaries/{}/{}.so", uuid, program_name)
ObjectName(uuid, program_name) ==
    <<"binaries/", uuid, "/">> \o program_name \o <<".so">>

--------------------------------------------------------------------------
(* routes/build.rs: the background task's classification *)

\* A classification that looks for the marker only.
RouteBuildSucceeded_MarkerOnly(stderr) ==
    /\ Contains(stderr, <<"Finished">>)
    /\ \/ Contains(stderr, <<"release">>)
       \/ Contains(stderr, <<Backquote, "release", Backquote>>)

\* stderr.contains("Finished") && (stderr.contains("release") ||
\* stderr.contains("[backquote]release[backquote]")) && !stderr.contains("error: could not compile")
RouteBuildSucceeded(stderr) ==
    /\ Contains(stderr, <<"Finished">>)
    /\ \/ Contains(stderr, <<"release">>)
       \/ Contains(stderr, <<Backquote, "release", Backquote>>)
    /\ ~Contains(stderr, <<"error: could not compile">>)

\* A background task that records an error of build() without its text.
CompleteTask_DropsCause(b, t, r, time) ==
    IF r.ok
    THEN complete_build(b, t.uuid, r.stderr, r.name, RouteBuildSucceeded(r.stderr), time)
    ELSE complete_build(b, t.uuid, <<"Build failed">>, t.program_name, FALSE, time)

\* The registry after the background task handled build()'s result.
CompleteTask(b, t, r, time) ==
    IF r.ok
    THEN complete_build(b, t.uuid, r.stderr, r.name, RouteBuildSucceeded(r.stderr), time)
    ELSE complete_build(b, t.uuid, <<"Build failed: ">> \o r.err, t.program_name, FALSE, time)

--------------------------------------------------------------------------
(* program.rs: get_binary and the remote store *)

\* The entries fs::read_dir(PROGRAMS_DIR) yields.
ProgramDirs(f) == {p[1] : p \in DOMAIN f}

\* What get_binary returns.
BinaryOk(bytes, tier) ==
    [ok |-> TRUE, bytes |-> <<bytes>>, tier |-> tier, remote |-> tier = "remote",
     kind |-> "", msg |-> <<>>]

BinaryErr(kind, msg) ==
    [ok |-> FALSE, bytes |-> <<>>, tier |-> "none", remote |-> TRUE,
     kind |-> kind, msg |-> msg]

\* download_from_gcs: a network call, whatever USE_GCS says.
download_from_gcs(g, reachable, uuid, program_name) ==
    IF reachable /\ ObjectName(uuid, program_name) \in DOMAIN g
    THEN BinaryOk(g[ObjectName(uuid, program_name)], "remote")
    ELSE BinaryErr("Other", <<"Failed to download from GCS: ">>)

\* A get_binary that scans the directories before it looks at the job's own.
get_binary_ScanFirst(f, g, reachable, uuid, program_name) ==
    LET safe == Sanitize(program_name)
        hits == {d \in ProgramDirs(f) : BinaryPath(d, safe) \in DOMAIN f}
    IN  IF hits # {}
        THEN {BinaryOk(f[BinaryPath(d, safe)], "scan") : d \in hits}
        ELSE {download_from_gcs(g, reachable, uuid, safe)}

\* A get_binary that asks the bucket for the name as it was given.
get_binary_RawRemoteKey(f, g, reachable, uuid, program_name) ==
    LET safe == Sanitize(program_name)
        hits == {d \in ProgramDirs(f) : BinaryPath(d, safe) \in DOMAIN f}
    IN  IF BinaryPath(uuid, safe) \in DOMAIN f
        THEN {BinaryOk(f[BinaryPath(uuid, safe)], "exact")}
        ELSE IF hits # {}
        THEN {BinaryOk(f[BinaryPath(d, safe)], "scan") : d \in hits}
        ELSE {download_from_gcs(g, reachable, uuid, program_name)}

\* get_binary: every value it may return in this state.  The order in which
\* read_dir yields the directories is not specified, so the scan may
\* return the binary of any directory that holds one.
get_binary(f, g, reachable, uuid, program_name) ==
    LET safe == Sanitize(program_name)
        hits == {d \in ProgramDirs(f) : BinaryPath(d, safe) \in DOMAIN f}
    IN  IF BinaryPath(uuid, safe) \in DOMAIN f
        THEN {BinaryOk(f[BinaryPath(uuid, safe)], "exact")}
        ELSE IF hits # {}
        THEN {BinaryOk(f[BinaryPath(d, safe)], "scan") : d \in hits}
        ELSE {download_from_gcs(g, reachable, uuid, safe)}

--------------------------------------------------------------------------
(* Responses *)

\* routes/build.rs: Ok(Json(BuildResponse {..}))
BuildResponse(uuid, program_name) ==
    [op |-> "build", code |-> 200,
     body |-> <<[uuid |-> uuid, program_name |-> program_name, status |-> "building"]>>,
     remote |-> FALSE]

\* error.rs: Error::Anyhow answers 500 with the error's text.
ErrorResponse(op, msg, remote) ==
    [op |-> op, code |-> 500, body |-> msg, remote |-> remote]

\* format!("{:?}", info.status).to_lowercase()
StatusName(status) ==
    CASE status = "Queued" -> "queued"
      [] status = "Building" -> "building"
      [] status = "Success" -> "success"
      [] status = "Failed" -> "failed"

\* routes/build.rs: build_status
build_status(b, uuid, time) ==
    IF get_build(b, uuid) # None
    THEN [op |-> "status", code |-> 200,
          body |-> <<[uuid |-> b[uuid].uuid,
                      program_name |-> b[uuid].program_name,
                      status |-> StatusName(b[uuid].status),
                      stderr |-> b[uuid].stderr,
                      started_at |-> b[uuid].started_at,
                      completed_at |-> b[uuid].completed_at]>>,
          remote |-> FALSE]
    ELSE [op |-> "status", code |-> 404,
          body |-> <<[uuid |-> uuid,
                      program_name |-> <<"unknown">>,
                      status |-> "not_found",
                      stderr |-> Some(<<"Build not found">>),
                      started_at |-> time,
                      completed_at |-> None]>>,
          remote |-> FALSE]

\* routes/deploy.rs: deploy, for one value get_binary returned
deploy_response(r) ==
    IF r.ok
    THEN [op |-> "deploy", code |-> 200, body |-> r.bytes, remote |-> r.remote]
    ELSE IF r.kind = "NotFound"
    THEN ErrorResponse("deploy", <<"Program is not built">>, r.remote)
    ELSE ErrorResponse("deploy", r.msg, r.remote)

--------------------------------------------------------------------------
(* State *)

\* No child process: the coarse model runs the toolchain in one step.
NoProc == [pc |-> "none"]

\* A background build task (the future given to tokio::spawn), the seq-th
\* admitted: pc is
\*   "build"   program::build has not started
\*   "staged"  the sources and the manifest are written
\*   "running" the child is spawned and its output is being drained
\*   "ret"     program::build returned `ret`
NewTask(seq, uuid, program_name, files) ==
    [seq |-> seq, uuid |-> uuid, program_name |-> program_name,
     files |-> files, pc |-> "build", ret |-> None]

\* What the toolchain does in the coarse model: the lines it prints on
\* each stream, its exit status and whether it writes the binary.
ToolchainRun(out, err, exit_ok, compiles) ==
    [out |-> out, err |-> err, exit_ok |-> exit_ok, compiles |-> compiles]

MainRuns ==
    {ToolchainRun(<<>>, <<LineFinished>>, TRUE, TRUE),
     ToolchainRun(<<>>, <<LineWarning, LineFinished>>, FALSE, TRUE),
     ToolchainRun(<<>>, <<LineFinished>>, TRUE, FALSE),
     ToolchainRun(<<>>, <<LineCouldNotCompile>>, FALSE, FALSE),
     ToolchainRun(<<>>, <<>>, TRUE, FALSE)}

\* The file sets clients submit, by name: a task's state holds the name of
\* its file set, Payload[name] is the Files value.
Payload ==
    [ok |-> FilesOk,
     ok2 |-> FilesOk2,
     traversal |-> FilesTraversal,
     empty_segment |-> FilesEmptySegment,
     too_long |-> FilesTooLong,
     too_many |-> FilesTooMany,
     max |-> FilesMax]

\* The file sets and the pre-build diagnostic of the coarse model.
MainFileSets == {"ok", "traversal", "too_many"}

MainDiags == {DiagTreeRan(<<>>)}

Init ==
    /\ builds = <<>>
    /\ tasks = {}
    /\ uploads = {}
    /\ fs = <<>>
    /\ gcs = <<>>
    /\ useGcs \in BOOLEAN
    /\ admitted = 0
    /\ proc = NoProc

--------------------------------------------------------------------------
(* routes/build.rs: build *)

\* Uuid::new_v4(): a uuid nobody has used.
FreshUuids == Uuids \ (DOMAIN builds \cup ProgramDirs(fs))

\* A handler that spawns the task and leaves the registering to it.
Admit_SpawnOnly(uuid, program_name, files) ==
    /\ admitted < MaxBuilds
    /\ tasks' = tasks \cup {NewTask(admitted + 1, uuid, program_name, files)}
    /\ admitted' = admitted + 1
    /\ UNCHANGED <<builds, uploads, fs, gcs, useGcs, proc>>

\* The handler with a uuid that parses, or with none: register, spawn, and
\* answer BuildResponse(uuid, program_name).
Admit(uuid, program_name, files) ==
    /\ admitted < MaxBuilds
    /\ builds' = start_build(builds, uuid, program_name,
                              Instant("start_build", admitted + 1))
    /\ tasks' = tasks \cup {NewTask(admitted + 1, uuid, program_name, files)}
    /\ admitted' = admitted + 1
    /\ UNCHANGED <<uploads, fs, gcs, useGcs, proc>>

\* The responses the handler may give to a request in this state.
BuildAnswers(uuid_in, program_name) ==
    IF uuid_in = None
    THEN {BuildResponse(u, program_name) : u \in FreshUuids}
    ELSE IF IsUuid(uuid_in[1])
    THEN {BuildResponse(uuid_in[1], program_name)}
    ELSE {ErrorResponse("build", <<"Invalid UUID">>, FALSE)}

\* A handler that takes the uuid it is given as it is.
Build_AnyUuid(uuid_in, program_name, files) ==
    IF uuid_in = None
    THEN \E u \in FreshUuids : Admit(u, program_name, files)
    ELSE Admit(uuid_in[1], program_name, files)

\* With a uuid that does not parse the handler answers
\* ErrorResponse("build", <<"Invalid UUID">>, FALSE) and does nothing else.
Build(uuid_in, program_name, files) ==
    IF uuid_in = None
    THEN \E u \in FreshUuids : Admit(u, program_name, files)
    ELSE IF IsUuid(uuid_in[1])
    THEN Admit(uuid_in[1], program_name, files)
    ELSE UNCHANGED vars

--------------------------------------------------------------------------
(* The background task *)

Return(t, r) == [t EXCEPT !.pc = "ret", !.ret = Some(r)]

\* A staging that writes the files with valid paths before it reports the
\* invalid ones.
Stage_WritesBeforeRejecting(t) ==
    /\ t \in tasks
    /\ t.pc = "build"
    /\ IF TooManyFiles(Payload[t.files])
       THEN /\ tasks' = (tasks \ {t}) \cup {Return(t, BuildErr(ErrTooManyFiles))}
            /\ fs' = fs
       ELSE IF ~AllPathsValid(Payload[t.files])
       THEN /\ tasks' = (tasks \ {t}) \cup {Return(t, BuildErr(ErrInvalidPath))}
            /\ fs' = WriteSourceFiles(fs, t.uuid,
                        SelectSeq(Payload[t.files], LAMBDA e : IsValidPath(e[1])))
       ELSE /\ tasks' = (tasks \ {t}) \cup {[t EXCEPT !.pc = "staged"]}
            /\ fs' = StageFiles(fs, t.uuid, t.program_name, Payload[t.files])
    /\ UNCHANGED <<builds, uploads, gcs, useGcs, admitted, proc>>

\* program::build up to the manifest: validate, then write.
Stage(t) ==
    /\ t \in tasks
    /\ t.pc = "build"
    /\ IF TooManyFiles(Payload[t.files])
       THEN /\ tasks' = (tasks \ {t}) \cup {Return(t, BuildErr(ErrTooManyFiles))}
            /\ fs' = fs
       ELSE IF ~AllPathsValid(Payload[t.files])
       THEN /\ tasks' = (tasks \ {t}) \cup {Return(t, BuildErr(ErrInvalidPath))}
            /\ fs' = fs
       ELSE /\ tasks' = (tasks \ {t}) \cup {[t EXCEPT !.pc = "staged"]}
            /\ fs' = StageFiles(fs, t.uuid, t.program_name, Payload[t.files])
    /\ UNCHANGED <<builds, uploads, gcs, useGcs, admitted, proc>>

\* TokioCommand::new("cargo-build-sbf")...spawn()? fails.
SpawnFails(t) ==
    /\ t \in tasks
    /\ t.pc = "staged"
    /\ tasks' = (tasks \ {t}) \cup
                {Return(t, BuildErr(<<"No such file or directory (os error 2)">>))}
    /\ UNCHANGED <<builds, uploads, fs, gcs, useGcs, admitted, proc>>

\* program::build from the spawn to its return, the child's run included.
RunToolchain(t, run, diag) ==
    /\ t \in tasks
    /\ t.pc = "staged"
    /\ LET safe == Sanitize(t.program_name)
           stdout_lines == ReadAllLines(<<>>, run.out)
           stderr_lines == ReadAllLines(<<>>, run.err)
           after == ChildWritesBinary(fs, t.uuid, run.compiles)
       IN  /\ fs' = after
           /\ tasks' = (tasks \ {t}) \cup
                {Return(t, BuildReturn(safe, stdout_lines, stderr_lines,
                                       run.exit_ok, diag))}
           /\ uploads' = uploads \cup
                BuildUploads(after, useGcs, t.uuid, safe, stdout_lines,
                             stderr_lines, run.exit_ok)
    /\ UNCHANGED <<builds, gcs, useGcs, admitted, proc>>

\* A task that calls complete_build only when build() returned Ok.
Complete_OnlyOk(t) ==
    /\ t \in tasks
    /\ t.pc = "ret"
    /\ builds' = IF t.ret[1].ok
                 THEN CompleteTask(builds, t, t.ret[1], Instant("complete_build", t.seq))
                 ELSE builds
    /\ tasks' = tasks \ {t}
    /\ UNCHANGED <<uploads, fs, gcs, useGcs, admitted, proc>>

\* The task's match on build()'s result: complete_build, then the task ends.
Complete(t) ==
    /\ t \in tasks
    /\ t.pc = "ret"
    /\ builds' = CompleteTask(builds, t, t.ret[1], Instant("complete_build", t.seq))
    /\ tasks' = tasks \ {t}
    /\ UNCHANGED <<uploads, fs, gcs, useGcs, admitted, proc>>

\* An upload whose failure is recorded as the build's failure.
Upload_FailureFailsBuild(up, succeeds) ==
    /\ up \in uploads
    /\ uploads' = uploads \ {up}
    /\ gcs' = IF succeeds
              THEN FsWrite(gcs, ObjectName(up.uuid, up.program_name), up.data)
              ELSE gcs
    /\ builds' = IF succeeds
                 THEN builds
                 ELSE complete_build(builds, up.uuid,
                                     <<"Failed to upload binary to GCS">>,
                                     up.program_name, FALSE, Instant("upload", 0))
    /\ UNCHANGED <<tasks, fs, useGcs, admitted, proc>>

\* upload_to_gcs in its detached task: the object is created, or the
\* error is printed.
Upload(up, succeeds) ==
    /\ up \in uploads
    /\ uploads' = uploads \ {up}
    /\ gcs' = IF succeeds
              THEN FsWrite(gcs, ObjectName(up.uuid, up.program_name), up.data)
              ELSE gcs
    /\ UNCHANGED <<builds, tasks, fs, useGcs, admitted, proc>>

--------------------------------------------------------------------------
(* The read handlers *)

\* The read handlers change nothing: a response is a function of the state
\* the request finds.

StatusAnswer(b, uuid) == build_status(b, uuid, Instant("build_status", 0))

\* Every response deploy may give in this state: the remote store may or may
\* not be reachable.
DeployAnswers(f, g, uuid, program_name) ==
    UNION {{deploy_response(r) : r \in get_binary(f, g, reachable, uuid, program_name)} :
            reachable \in BOOLEAN}

\* GET /build/status/:uuid answers StatusAnswer(builds, uuid).
BuildStatus(uuid) ==
    /\ StatusAnswer(builds, uuid).op = "status"
    /\ UNCHANGED vars

\* GET /deploy/:uuid/:program_name answers deploy_response(r) for one of the
\* values r that get_binary may return.
Deploy(uuid, program_name) ==
    /\ DeployAnswers(fs, gcs, uuid, program_name) # {}
    /\ UNCHANGED vars

--------------------------------------------------------------------------
(* The orchestrator: any number of requests and background tasks *)

UuidInputs == {None} \cup {Some(u) : u \in Uuids \cup {BadUuid}}

Next ==
    \/ \E u \in UuidInputs, n \in ProgramNames, f \in MainFileSets : Build(u, n, f)
    \/ \E t \in tasks : Stage(t)
    \/ \E t \in tasks : SpawnFails(t)
    \/ \E t \in tasks, run \in MainRuns, d \in MainDiags : RunToolchain(t, run, d)
    \/ \E t \in tasks : Complete(t)
    \/ \E up \in uploads, ok \in BOOLEAN : Upload(up, ok)
    \/ \E u \in Uuids : BuildStatus(u)
    \/ \E u \in Uuids, n \in ArtifactNames : Deploy(u, n)

Spec == Init /\ [][Next]_vars

--------------------------------------------------------------------------
(* program.rs, the runner step by step: one build task, its child process *)
(* and the two pipes between them                                          *)

Streams == {"stdout", "stderr"}

\* The child just spawned, with both pipes empty, and the runner about to
\* read stdout.  `pending` is the write the child is blocked in, if any.
Spawned(seq, diag) ==
    [pc |-> "drain_stdout", seq |-> seq, getrandom_diag |-> diag,
     pipe |-> [st \in Streams |-> <<>>], pending |-> None, written |-> 0,
     exited |-> FALSE, exit_ok |-> FALSE,
     stdout_lines |-> <<>>, stderr_lines |-> <<>>]

\* One admitted build whose sources are staged, nothing else.
InitRunner ==
    /\ builds = start_build(<<>>, "u1", NameDash, Instant("start_build", 1))
    /\ tasks = {[NewTask(1, "u1", NameDash, "ok") EXCEPT !.pc = "staged"]}
    /\ uploads = {}
    /\ fs = StageFiles(<<>>, "u1", NameDash, FilesOk)
    /\ gcs = <<>>
    /\ useGcs \in BOOLEAN
    /\ admitted = 1
    /\ proc = NoProc

\* TokioCommand::new("cargo-build-sbf")...spawn()? succeeds.
Spawn(t, diag) ==
    /\ t \in tasks
    /\ t.pc = "staged"
    /\ proc = NoProc
    /\ proc' = Spawned(t.seq, diag)
    /\ tasks' = (tasks \ {t}) \cup {[t EXCEPT !.pc = "running"]}
    /\ UNCHANGED <<builds, uploads, fs, gcs, useGcs, admitted>>

Running == proc.pc \in {"drain_stdout", "drain_stderr", "wait"}

\* The child calls write(2) with one line for one of its streams.
ChildBeginWrite(st, line) ==
    /\ Running
    /\ ~proc.exited
    /\ proc.pending = None
    /\ proc.written < MaxWrites
    /\ proc' = [proc EXCEPT !.pending = Some(<<st, line>>), !.written = @ + 1]
    /\ UNCHANGED <<builds, tasks, uploads, fs, gcs, useGcs, admitted>>

\* The write returns once the pipe has room for the line.
ChildEndWrite ==
    /\ Running
    /\ proc.pending # None
    /\ LET st == proc.pending[1][1]
           line == proc.pending[1][2]
       IN  /\ Len(proc.pipe[st]) < PipeCap
           /\ proc' = [proc EXCEPT !.pipe[st] = Append(@, line), !.pending = None]
    /\ UNCHANGED <<builds, tasks, uploads, fs, gcs, useGcs, admitted>>

\* The child exits: both pipes are closed, and the binary is written when
\* the child compiled.
ChildExit(exit_ok, compiles) ==
    /\ Running
    /\ ~proc.exited
    /\ proc.pending = None
    /\ proc' = [proc EXCEPT !.exited = TRUE, !.exit_ok = exit_ok]
    /\ \E t \in tasks :
          /\ t.seq = proc.seq
          /\ fs' = ChildWritesBinary(fs, t.uuid, compiles)
    /\ UNCHANGED <<builds, tasks, uploads, gcs, useGcs, admitted>>

\* while let Ok(Some(line)) = reader.next_line().await, on stdout: a line
\* is taken when the pipe holds one, the loop ends when the pipe is empty
\* and closed, and the runner waits otherwise.
DrainStdout ==
    /\ proc.pc = "drain_stdout"
    /\ IF proc.pipe["stdout"] # <<>>
       THEN proc' = [proc EXCEPT
                        !.stdout_lines = PushLine(@, Head(proc.pipe["stdout"])),
                        !.pipe["stdout"] = Tail(@)]
       ELSE /\ proc.exited
            /\ proc' = [proc EXCEPT !.pc = "drain_stderr"]
    /\ UNCHANGED <<builds, tasks, uploads, fs, gcs, useGcs, admitted>>

\* The same loop on stderr, entered after the loop on stdout ended.
DrainStderr ==
    /\ proc.pc = "drain_stderr"
    /\ IF proc.pipe["stderr"] # <<>>
       THEN proc' = [proc EXCEPT
                        !.stderr_lines = PushLine(@, Head(proc.pipe["stderr"])),
                        !.pipe["stderr"] = Tail(@)]
       ELSE /\ proc.exited
            /\ proc' = [proc EXCEPT !.pc = "wait"]
    /\ UNCHANGED <<builds, tasks, uploads, fs, gcs, useGcs, admitted>>

\* child.wait().await? and the rest of program::build.
Wait(t) ==
    /\ t \in tasks
    /\ t.pc = "running"
    /\ proc.pc = "wait"
    /\ proc.seq = t.seq
    /\ proc.exited
    /\ LET safe == Sanitize(t.program_name)
       IN  /\ tasks' = (tasks \ {t}) \cup
                {Return(t, BuildReturn(safe, proc.stdout_lines, proc.stderr_lines,
                                       proc.exit_ok, proc.getrandom_diag))}
           /\ uploads' = uploads \cup
                BuildUploads(fs, useGcs, t.uuid, safe, proc.stdout_lines,
                             proc.stderr_lines, proc.exit_ok)
    /\ proc' = [proc EXCEPT !.pc = "returned"]
    /\ UNCHANGED <<builds, fs, gcs, useGcs, admitted>>

NextRunner ==
    \/ \E t \in tasks : SpawnFails(t)
    \/ \E t \in tasks, d \in GetrandomDiags : Spawn(t, d)
    \/ \E st \in Streams, line \in Lines : ChildBeginWrite(st, line)
    \/ ChildEndWrite
    \/ \E ok \in BOOLEAN, compiles \in BOOLEAN : ChildExit(ok, compiles)
    \/ DrainStdout
    \/ DrainStderr
    \/ \E t \in tasks : Wait(t)
    \/ \E t \in tasks : Complete(t)
    \/ \E up \in uploads, ok \in BOOLEAN : Upload(up, ok)
    \/ \E u \in Uuids : BuildStatus(u)
    \/ \E u \in Uuids, n \in ArtifactNames : Deploy(u, n)

SpecRunner == InitRunner /\ [][NextRunner]_vars

--------------------------------------------------------------------------
(* program.rs, validation and staging on every kind of file set: one build *)
(* task that has not started, on a server that may have built before       *)

StagingFileSets == DOMAIN Payload

\* The program names clients submit: with a dash, empty, starting with a
\* digit.
NameEmpty == <<>>

NameDigit == <<"1", "a">>

StagingNames == {NameDash, NameEmpty, NameDigit}

\* The registry and the files after an earlier build of u2 was staged and
\* failed to spawn the toolchain.
PriorBuilds ==
    complete_build(start_build(<<>>, "u2", NameHello, Instant("start_build", 1)),
                   "u2",
                   <<"Build failed: ", "No such file or directory (os error 2)">>,
                   NameHello, FALSE, Instant("complete_build", 1))

PriorFs == StageFiles(<<>>, "u2", NameHello, FilesOk2)

\* One build just admitted, on a fresh server or after the earlier build.
InitStaging ==
    \E prior \in BOOLEAN, u \in Uuids, key \in StagingFileSets, name \in StagingNames :
        LET n == IF prior THEN 2 ELSE 1
        IN  /\ builds = start_build(IF prior THEN PriorBuilds ELSE <<>>,
                                    u, name, Instant("start_build", n))
            /\ tasks = {NewTask(n, u, name, key)}
            /\ uploads = {}
            /\ fs = IF prior THEN PriorFs ELSE <<>>
            /\ gcs = <<>>
            /\ useGcs \in BOOLEAN
            /\ admitted = n
            /\ proc = NoProc

NextStaging ==
    \/ \E t \in tasks : Stage(t)
    \/ \E t \in tasks : SpawnFails(t)
    \/ \E t \in tasks, run \in MainRuns, d \in MainDiags : RunToolchain(t, run, d)
    \/ \E t \in tasks : Complete(t)
    \/ \E up \in uploads, ok \in BOOLEAN : Upload(up, ok)
    \/ \E u \in Uuids : BuildStatus(u)
    \/ \E u \in Uuids, n \in ArtifactNames : Deploy(u, n)

SpecStaging == InitStaging /\ [][NextStaging]_vars

--------------------------------------------------------------------------
(* build_tracker.rs, the tracker under its lock: concurrent calls of        *)
(* start_build, complete_build and get_build, one step per statement        *)

\* A call of one of the tracker's methods: pc is
\*   "call"    waiting for builds.write() or builds.read()
\*   "locked"  the guard is held
\*   "status", "stderr", "program_name", "completed_at"
\*             complete_build is about to assign that field
\*   "ret"     the method's work is done; the guard is dropped next
\* `before` is the map as the call found it when it got the guard, `ret`
\* what get_build returns.
NewCall(seq, op, uuid, success) ==
    [seq |-> seq, op |-> op, uuid |-> uuid, success |-> success,
     pc |-> "call", before |-> <<>>, ret |-> None]

\* The arguments the callers pass.
CallStderr == <<"diagnostics">>

CallProgramName == Sanitize(NameDash)

\* The registry is empty, or holds one build that is running.
InitTracker ==
    /\ builds \in {<<>>, start_build(<<>>, "u1", NameDash, Instant("start_build", 0))}
    /\ tasks = {}
    /\ uploads = {}
    /\ fs = <<>>
    /\ gcs = <<>>
    /\ useGcs = FALSE
    /\ admitted = 0
    /\ proc = NoProc

\* Some task calls a method of the tracker.
TrackerCall(op, uuid, success) ==
    /\ admitted < MaxCalls
    /\ success \in (IF op = "complete_build" THEN BOOLEAN ELSE {FALSE})
    /\ tasks' = tasks \cup {NewCall(admitted + 1, op, uuid, success)}
    /\ admitted' = admitted + 1
    /\ UNCHANGED <<builds, uploads, fs, gcs, useGcs, proc>>

\* A write guard, a read guard is held.
WriteLocked == \E c \in tasks : c.op # "get_build" /\ c.pc # "call"

ReadLocked == \E c \in tasks : c.op = "get_build" /\ c.pc # "call"

Step(c, d) ==
    /\ tasks' = (tasks \ {c}) \cup {d}
    /\ UNCHANGED <<uploads, fs, gcs, useGcs, admitted, proc>>

\* self.builds.write().await
LockWrite(c) ==
    /\ c \in tasks
    /\ c.op \in {"start_build", "complete_build"}
    /\ c.pc = "call"
    /\ ~WriteLocked
    /\ ~ReadLocked
    /\ Step(c, [c EXCEPT !.pc = "locked", !.before = builds])
    /\ builds' = builds

\* A reader that does not wait for the writer.
LockRead_NoWait(c) ==
    /\ c \in tasks
    /\ c.op = "get_build"
    /\ c.pc = "call"
    /\ Step(c, [c EXCEPT !.pc = "locked"])
    /\ builds' = builds

\* self.builds.read().await
LockRead(c) ==
    /\ c \in tasks
    /\ c.op = "get_build"
    /\ c.pc = "call"
    /\ ~WriteLocked
    /\ Step(c, [c EXCEPT !.pc = "locked"])
    /\ builds' = builds

\* A start_build that replaces the map by one that holds the new entry only.
Insert_ReplacesMap(c) ==
    /\ c \in tasks
    /\ c.op = "start_build"
    /\ c.pc = "locked"
    /\ builds' = start_build(<<>>, c.uuid, NameDash, Instant("start_build", c.seq))
    /\ Step(c, [c EXCEPT !.pc = "ret"])

\* start_build: builds.insert(uuid, BuildInfo {..})
Insert(c) ==
    /\ c \in tasks
    /\ c.op = "start_build"
    /\ c.pc = "locked"
    /\ builds' = start_build(builds, c.uuid, NameDash, Instant("start_build", c.seq))
    /\ Step(c, [c EXCEPT !.pc = "ret"])

\* A complete_build that creates the entry it does not find.
GetMut_Upsert(c) ==
    /\ c \in tasks
    /\ c.op = "complete_build"
    /\ c.pc = "locked"
    /\ builds' = IF c.uuid \in DOMAIN builds
                 THEN builds
                 ELSE start_build(builds, c.uuid, CallProgramName,
                                  Instant("complete_build", c.seq))
    /\ Step(c, [c EXCEPT !.pc = "status"])

\* complete_build: if let Some(info) = builds.get_mut(uuid) {..} else {..}
GetMut(c) ==
    /\ c \in tasks
    /\ c.op = "complete_build"
    /\ c.pc = "locked"
    /\ builds' = builds
    /\ Step(c, [c EXCEPT !.pc = IF c.uuid \in DOMAIN builds THEN "status" ELSE "ret"])

\* complete_build: the four assignments to *info, in the order of the code.
SetStatus(c) ==
    /\ c \in tasks
    /\ c.pc = "status"
    /\ builds' = [builds EXCEPT ![c.uuid].status =
                                    IF c.success THEN "Success" ELSE "Failed"]
    /\ Step(c, [c EXCEPT !.pc = "stderr"])

SetStderr(c) ==
    /\ c \in tasks
    /\ c.pc = "stderr"
    /\ builds' = [builds EXCEPT ![c.uuid].stderr = Some(CallStderr)]
    /\ Step(c, [c EXCEPT !.pc = "program_name"])

SetProgramName(c) ==
    /\ c \in tasks
    /\ c.pc = "program_name"
    /\ builds' = [builds EXCEPT ![c.uuid].program_name = CallProgramName]
    /\ Step(c, [c EXCEPT !.pc = "completed_at"])

SetCompletedAt(c) ==
    /\ c \in tasks
    /\ c.pc = "completed_at"
    /\ builds' = [builds EXCEPT ![c.uuid].completed_at =
                                    Some(Instant("complete_build", c.seq))]
    /\ Step(c, [c EXCEPT !.pc = "ret"])

\* A get_build that creates the entry it does not find.
Clone_OrInsert(c) ==
    /\ c \in tasks
    /\ c.op = "get_build"
    /\ c.pc = "locked"
    /\ builds' = IF c.uuid \in DOMAIN builds
                 THEN builds
                 ELSE start_build(builds, c.uuid, <<"unknown">>,
                                  Instant("get_build", c.seq))
    /\ Step(c, [c EXCEPT !.pc = "ret", !.ret = get_build(builds', c.uuid)])

\* get_build: builds.get(uuid).cloned()
Clone(c) ==
    /\ c \in tasks
    /\ c.op = "get_build"
    /\ c.pc = "locked"
    /\ builds' = builds
    /\ Step(c, [c EXCEPT !.pc = "ret", !.ret = get_build(builds, c.uuid)])

\* The method returns: its guard is dropped.
Unlock(c) ==
    /\ c \in tasks
    /\ c.pc = "ret"
    /\ tasks' = tasks \ {c}
    /\ UNCHANGED <<builds, uploads, fs, gcs, useGcs, admitted, proc>>

TrackerOps == {"start_build", "complete_build", "get_build"}

NextTracker ==
    \/ \E op \in TrackerOps, u \in Uuids, ok \in BOOLEAN : TrackerCall(op, u, ok)
    \/ \E c \in tasks : LockWrite(c)
    \/ \E c \in tasks : LockRead(c)
    \/ \E c \in tasks : Insert(c)
    \/ \E c \in tasks : GetMut(c)
    \/ \E c \in tasks : SetStatus(c)
    \/ \E c \in tasks : SetStderr(c)
    \/ \E c \in tasks : SetProgramName(c)
    \/ \E c \in tasks : SetCompletedAt(c)
    \/ \E c \in tasks : Clone(c)
    \/ \E c \in tasks : Unlock(c)

SpecTracker == InitTracker /\ [][NextTracker]_vars

--------------------------------------------------------------------------
(* program.rs, get_binary over the three tiers: builds of two different     *)
(* sources under client-supplied uuids, uploads, and restarts of the server *)

\* The file sets and the toolchain runs of this model: sources that are
\* valid, and a toolchain that reports success, with or without a binary.
ResolveFileSets == {"ok", "ok2"}

ResolveRuns ==
    {ToolchainRun(<<>>, <<LineFinished>>, TRUE, TRUE),
     ToolchainRun(<<>>, <<LineFinished>>, TRUE, FALSE)}

\* The server is started again in a new container: main() builds a new
\* tracker and program::init() finds an empty programs directory; the
\* tasks of the old process are gone, the bucket is what it was.
Restart ==
    /\ fs # <<>>
    /\ builds' = <<>>
    /\ tasks' = {}
    /\ uploads' = {}
    /\ fs' = <<>>
    /\ UNCHANGED <<gcs, useGcs, admitted, proc>>

NextResolve ==
    \/ \E u \in Uuids, n \in ProgramNames, f \in ResolveFileSets : Build(Some(u), n, f)
    \/ \E t \in tasks : Stage(t)
    \/ \E t \in tasks, run \in ResolveRuns, d \in MainDiags : RunToolchain(t, run, d)
    \/ \E t \in tasks : Complete(t)
    \/ \E up \in uploads, ok \in BOOLEAN : Upload(up, ok)
    \/ Restart
    \/ \E u \in Uuids, n \in ArtifactNames : Deploy(u, n)

SpecResolve == Init /\ [][NextResolve]_vars

--------------------------------------------------------------------------
(* The background task under the runtime's scheduling: a spawned task is   *)
(* polled until it ends                                                     *)

\* fs::create_dir_all(&program_path)? fails: build() returns the error
\* before it has written anything.
StageFails(t) ==
    /\ t \in tasks
    /\ t.pc = "build"
    /\ ~(TooManyFiles(Payload[t.files]) \/ ~AllPathsValid(Payload[t.files]))
    /\ tasks' = (tasks \ {t}) \cup
                {Return(t, BuildErr(<<"Permission denied (os error 13)">>))}
    /\ UNCHANGED <<builds, uploads, fs, gcs, useGcs, admitted, proc>>

\* The toolchain's runs: those of MainRuns, and one that prints the marker
\* and a compile error and exits with status zero.
TaskRuns ==
    MainRuns \cup {ToolchainRun(<<>>, <<LineFinished, LineCouldNotCompile>>, TRUE, TRUE)}

\* A step of the background task t.
TaskStep(t) ==
    \/ Stage(t)
    \/ StageFails(t)
    \/ SpawnFails(t)
    \/ \E run \in TaskRuns, d \in MainDiags : RunToolchain(t, run, d)
    \/ Complete(t)

NextLive ==
    \/ \E t \in tasks : TaskStep(t)
    \/ \E up \in uploads, ok \in BOOLEAN : Upload(up, ok)
    \/ \E u \in Uuids : BuildStatus(u)
    \/ \E u \in Uuids, n \in ArtifactNames : Deploy(u, n)

\* The runtime polls a spawned task that can run, and every subprocess the
\* task waits for ends.
SpecLive ==
    /\ InitStaging
    /\ [][NextLive]_vars
    /\ WF_vars(\E t \in tasks : TaskStep(t))

--------------------------------------------------------------------------
(* crates/program/src/pubkey.rs: program addresses derived from seeds       *)

MAX_SEEDS == 16

MAX_SEED_LEN == 32

\* std::u8::MAX
U8_MAX == 255

\* The number of values the model's digest takes.
DigestSpace == 4

\* The sum of i * bytes[i] over lo..hi, modulo DigestSpace.
RECURSIVE WeightedSum(_, _, _)
WeightedSum(bytes, lo, hi) ==
    IF lo > hi
    THEN 0
    ELSE IF lo = hi
    THEN (lo * bytes[lo]) % DigestSpace
    ELSE LET mid == (lo + hi) \div 2
         IN  (WeightedSum(bytes, lo, mid) + WeightedSum(bytes, mid + 1, hi)) % DigestSpace

\* sha256::digest as the model computes it: a function of the bytes and
\* their positions, onto a small range (so that digests collide).
Digest(bytes) == (Len(bytes) + WeightedSum(bytes, 1, Len(bytes))) % DigestSpace

\* hash.extend_from_slice(seed) for the seeds lo..hi.
RECURSIVE ConcatRange(_, _, _)
ConcatRange(seeds, lo, hi) ==
    IF lo > hi
    THEN <<>>
    ELSE IF lo = hi
    THEN seeds[lo]
    ELSE LET mid == (lo + hi) \div 2
         IN  ConcatRange(seeds, lo, mid) \o ConcatRange(seeds, mid + 1, hi)

Concat(seeds) == ConcatRange(seeds, 1, Len(seeds))

\* The digests is_on_curve accepts: secp256k1's PublicKey::from_slice is
\* outside the repository, so the model takes every set of digests.
Curves == SUBSET (0..(DigestSpace - 1))

\* Pubkey::is_on_curve
is_on_curve(curve, hash) == hash \in curve

PubkeyOk(address) == [ok |-> TRUE, address |-> address]

PubkeyErr(err) == [ok |-> FALSE, err |-> err]

\* A create_program_address whose limits are off by one.
create_program_address_OffByOne(curve, seeds, program_id) ==
    IF Len(seeds) >= MAX_SEEDS
    THEN PubkeyErr("MaxSeedLengthExceeded")
    ELSE IF \E i \in 1..Len(seeds) : Len(seeds[i]) >= MAX_SEED_LEN
    THEN PubkeyErr("MaxSeedLengthExceeded")
    ELSE LET hash == Digest(Concat(seeds) \o program_id)
         IN  IF is_on_curve(curve, hash)
             THEN PubkeyErr("InvalidSeeds")
             ELSE PubkeyOk(hash)

\* Pubkey::create_program_address (not target_os = "solana")
create_program_address(curve, seeds, program_id) ==
    IF Len(seeds) > MAX_SEEDS
    THEN PubkeyErr("MaxSeedLengthExceeded")
    ELSE IF \E i \in 1..Len(seeds) : Len(seeds[i]) > MAX_SEED_LEN
    THEN PubkeyErr("MaxSeedLengthExceeded")
    ELSE LET hash == Digest(Concat(seeds) \o program_id)
         IN  IF is_on_curve(curve, hash)
             THEN PubkeyErr("InvalidSeeds")
             ELSE PubkeyOk(hash)

\* Seeds of 1, 32 and 33 bytes, and lists of n one-byte seeds.
SeedOfLen(n) == [i \in 1..n |-> 1]

SeedList(n) == [i \in 1..n |-> SeedOfLen(1)]

SeedLists ==
    {<<>>, SeedList(1), SeedList(2),
     SeedList(MAX_SEEDS - 1), SeedList(MAX_SEEDS), SeedList(MAX_SEEDS + 1),
     <<SeedOfLen(MAX_SEED_LEN)>>, <<SeedOfLen(MAX_SEED_LEN + 1)>>,
     <<SeedOfLen(1), SeedOfLen(MAX_SEED_LEN + 1)>>}

\* Pubkey::default() and Pubkey::system_program()
ProgramIds ==
    {[i \in 1..32 |-> 0], [i \in 1..32 |-> IF i = 32 THEN 1 ELSE 0]}

\* The caller is between calls, with the curve of this execution.
PubkeyIdle(curve) == [pc |-> "idle", curve |-> curve]

InitPubkey ==
    /\ builds = <<>>
    /\ tasks = {}
    /\ uploads = {}
    /\ fs = <<>>
    /\ gcs = <<>>
    /\ useGcs = FALSE
    /\ admitted = 0
    /\ \E curve \in Curves : proc = PubkeyIdle(curve)

\* A call of create_program_address and its result.
CreateProgramAddress(seeds, program_id) ==
    /\ proc.pc = "idle"
    /\ proc' = [pc |-> "created", curve |-> proc.curve,
                seeds |-> seeds, program_id |-> program_id,
                ret |-> create_program_address(proc.curve, seeds, program_id)]
    /\ UNCHANGED <<builds, tasks, uploads, fs, gcs, useGcs, admitted>>

\* try_find_program_address: let mut bump_seed = [std::u8::MAX]
TryFindProgramAddress(seeds, program_id) ==
    /\ proc.pc = "idle"
    /\ proc' = [pc |-> "loop", curve |-> proc.curve,
                seeds |-> seeds, program_id |-> program_id,
                bump_seed |-> U8_MAX, iter |-> 0, ret |-> None]
    /\ UNCHANGED <<builds, tasks, uploads, fs, gcs, useGcs, admitted>>

\* A loop that returns the bump seed below the one it tried.
FindIterate_ReturnsNextBump ==
    /\ proc.pc = "loop"
    /\ proc.iter < U8_MAX
    /\ LET r == create_program_address(proc.curve,
                    Append(proc.seeds, <<proc.bump_seed>>), proc.program_id)
       IN  proc' =
              IF r.ok
              THEN [proc EXCEPT !.pc = "found",
                                !.ret = Some(<<r.address, proc.bump_seed - 1>>)]
              ELSE IF r.err = "InvalidSeeds"
              THEN [proc EXCEPT !.bump_seed = @ - 1, !.iter = @ + 1]
              ELSE [proc EXCEPT !.pc = "found", !.ret = None]
    /\ UNCHANGED <<builds, tasks, uploads, fs, gcs, useGcs, admitted>>

\* One iteration of for _ in 0..std::u8::MAX: Ok returns, InvalidSeeds
\* goes on with bump_seed[0] -= 1, any other error breaks.
FindIterate ==
    /\ proc.pc = "loop"
    /\ proc.iter < U8_MAX
    /\ LET r == create_program_address(proc.curve,
                    Append(proc.seeds, <<proc.bump_seed>>), proc.program_id)
       IN  proc' =
              IF r.ok
              THEN [proc EXCEPT !.pc = "found",
                                !.ret = Some(<<r.address, proc.bump_seed>>)]
              ELSE IF r.err = "InvalidSeeds"
              THEN [proc EXCEPT !.bump_seed = @ - 1, !.iter = @ + 1]
              ELSE [proc EXCEPT !.pc = "found", !.ret = None]
    /\ UNCHANGED <<builds, tasks, uploads, fs, gcs, useGcs, admitted>>

\* The loop ran std::u8::MAX times: None.
FindExhausted ==
    /\ proc.pc = "loop"
    /\ proc.iter = U8_MAX
    /\ proc' = [proc EXCEPT !.pc = "found", !.ret = None]
    /\ UNCHANGED <<builds, tasks, uploads, fs, gcs, useGcs, admitted>>

\* The caller takes the result.
PubkeyReturn ==
    /\ proc.pc \in {"created", "found"}
    /\ proc' = PubkeyIdle(proc.curve)
    /\ UNCHANGED <<builds, tasks, uploads, fs, gcs, useGcs, admitted>>

NextPubkey ==
    \/ \E seeds \in SeedLists, id \in ProgramIds : CreateProgramAddress(seeds, id)
    \/ \E seeds \in SeedLists, id \in ProgramIds : TryFindProgramAddress(seeds, id)
    \/ FindIterate
    \/ FindExhausted
    \/ PubkeyReturn

SpecPubkey == InitPubkey /\ [][NextPubkey]_vars

--------------------------------------------------------------------------
(* Claims *)

\* The status a GET /build/status/:uuid reports in this state.
StatusOf(u) == StatusAnswer(builds, u).body[1].status

InvalidFiles(files) == TooManyFiles(files) \/ ~AllPathsValid(files)

\* C1: while the background task of an admitted build has not completed,
\* the status reported for its job id is building (and never not_found).
C1_PendingBuildIsBuilding ==
    \A t \in tasks : StatusOf(t.uuid) = "building"

\* C2: a build submitted with a file set that breaks the file-count or the
\* path rules is never registered: the status of its job id is not_found.
C2_InvalidFilesNeverRegistered ==
    \A t \in tasks : InvalidFiles(Payload[t.files]) => StatusOf(t.uuid) = "not_found"

\* C3: once success or failed is reported for a job id, every later status
\* reported for that id is the same.
C3_TerminalStatusIsFinal ==
    [][\A u \in Uuids :
          StatusOf(u) \in {"success", "failed"}
             => StatusAnswer(builds', u).body[1].status = StatusOf(u)]_vars

\* C4: a complete_build on an entry that is already Success or Failed
\* leaves the entry as the first complete_build wrote it.
C4_SecondCompleteLeavesEntry ==
    [][\A t \in tasks :
          (/\ t.pc = "ret"
           /\ tasks' = tasks \ {t}
           /\ t.uuid \in DOMAIN builds
           /\ builds[t.uuid].status \in {"Success", "Failed"})
             => builds'[t.uuid] = builds[t.uuid]]_vars

\* The child is blocked in a write to a full pipe.
ChildBlocked ==
    /\ Running
    /\ proc.pending # None
    /\ Len(proc.pipe[proc.pending[1][1]]) >= PipeCap

\* The runner is blocked reading a pipe that is empty and still open.
RunnerBlocked ==
    /\ ~proc.exited
    /\ \/ proc.pc = "drain_stdout" /\ proc.pipe["stdout"] = <<>>
       \/ proc.pc = "drain_stderr" /\ proc.pipe["stderr"] = <<>>

\* C5: the child is never blocked forever on a full pipe: it never waits
\* for room in one pipe while the runner waits for data on the other.
C5_NoPipeDeadlock == ~(ChildBlocked /\ RunnerBlocked)

\* The one build of the runner model has completed after its child ran.
RunCompleted == tasks = {} /\ proc.pc = "returned"

\* C6: a non-zero exit status with the marker "Finished release" in stdout
\* or stderr is recorded as Success.
C6_MarkerWithFailedExitIsSuccess ==
    (RunCompleted /\ ~proc.exit_ok /\ MarkerSeen(proc.stdout_lines, proc.stderr_lines))
        => builds["u1"].status = "Success"

\* C7: a non-zero exit status without the marker "Finished release" in
\* stdout and stderr is recorded as Failed.
C7_NoMarkerWithFailedExitIsFailed ==
    (RunCompleted /\ ~proc.exit_ok /\ ~MarkerSeen(proc.stdout_lines, proc.stderr_lines))
        => builds["u1"].status = "Failed"

\* C8: every Failed entry of the registry has diagnostics, and they are
\* not empty.
C8_FailedHasDiagnostics ==
    \A u \in DOMAIN builds :
        builds[u].status = "Failed"
            => builds[u].stderr # None /\ builds[u].stderr[1] # <<>>

\* C9: for every Success entry, deploy with the entry's job id and program
\* name answers with the artifact's bytes, whatever the remote store does.
C9_SuccessHasArtifact ==
    \A u \in DOMAIN builds :
        builds[u].status = "Success"
            => \A a \in DeployAnswers(fs, gcs, u, builds[u].program_name) : a.code = 200

\* C10: with USE_GCS unset get_binary makes no remote fetch, and a missing
\* artifact is an error of kind NotFound.
C10_NoRemoteFetchWhenDisabled ==
    ~useGcs =>
        \A u \in Uuids, n \in ArtifactNames, reachable \in BOOLEAN :
            \A r \in get_binary(fs, gcs, reachable, u, n) :
                ~r.remote /\ (~r.ok => r.kind = "NotFound")

\* C11: when no artifact resolves in any tier, the remote store being
\* reachable or not, deploy fails with "Program is not built".
C11_UnresolvedIsNotBuilt ==
    \A u \in Uuids, n \in ArtifactNames :
        \A a \in DeployAnswers(fs, gcs, u, n) :
            a.code # 200 => a.body = <<"Program is not built">>

\* An upload of a binary of job u was started: its task is pending, or it
\* created its object.
UploadStarted(u) ==
    \/ \E up \in uploads : up.uuid = u
    \/ \E o \in DOMAIN gcs : o[2] = u

\* C12: an upload is started only for a build that is recorded as Success,
\* never for one that is recorded as Failed.
C12_UploadOnlyAfterSuccess ==
    (tasks = {} /\ UploadStarted("u1")) => builds["u1"].status = "Success"

\* C13: a step of the upload task, whether the upload succeeds or fails,
\* leaves the registry as it is: the status and the diagnostics recorded for
\* the job do not depend on the upload.
C13_UploadLeavesRegistry ==
    [][(\E up \in uploads : uploads' = uploads \ {up}) => builds' = builds]_vars

\* A job recorded as Success whose upload was started and failed.
C13_Witness ==
    /\ useGcs
    /\ uploads = {}
    /\ gcs = <<>>
    /\ \E u \in DOMAIN builds :
          /\ builds[u].status = "Success"
          /\ BinaryPath(u, builds[u].program_name) \in DOMAIN fs

\* C14: when a file of the submitted set breaks a rule, staging leaves the
\* file system as it was: nothing is written, the other files of the set
\* included.
C14_InvalidSetWritesNothing ==
    [][\A t \in tasks :
          (t.pc = "build" /\ InvalidFiles(Payload[t.files]) /\ t \notin tasks')
             => fs' = fs]_vars

\* Staging rejected a set whose last entry is the invalid one.
C14_Witness ==
    \E t \in tasks :
        /\ t.files = "traversal"
        /\ IsValidPath(Payload[t.files][1][1])
        /\ ~IsValidPath(Payload[t.files][Len(Payload[t.files])][1])
        /\ t.pc = "ret"
        /\ t.ret[1] = BuildErr(ErrInvalidPath)

\* The task's build() ended in one of validation's errors.
Rejected(t) ==
    t.pc = "ret" /\ t.ret[1] \in {BuildErr(ErrTooManyFiles), BuildErr(ErrInvalidPath)}

\* C15: a set of exactly 64 valid entries passes validation and is staged;
\* a set of 65 entries is rejected with the file-amount error.
C15_FileCountBoundary ==
    \A t \in tasks :
        t.pc # "build" =>
            /\ (Len(Payload[t.files]) = 64 /\ AllPathsValid(Payload[t.files]))
                  => ~Rejected(t) /\ ManifestPath(t.uuid) \in DOMAIN fs
            /\ Len(Payload[t.files]) = 65
                  => t.pc = "ret" /\ t.ret[1] = BuildErr(ErrTooManyFiles)

\* A set of 64 entries was validated and staged.
C15_Witness ==
    \E t \in tasks : Len(Payload[t.files]) = 64 /\ t.pc = "staged"

\* The file p is inside the workspace of job uuid: below programs/{uuid}/,
\* by a relative path without a ".." and without an empty segment.
InWorkspace(p, uuid) ==
    /\ Len(p) > 2
    /\ p[1] = uuid
    /\ p[2] = "/"
    /\ p[3] # "/"
    /\ ~Contains(p, <<".", ".">>)
    /\ ~Contains(p, <<"/", "/">>)

\* The file p is a source file staged from a path that keeps the rules.
StagedSource(p, uuid) ==
    /\ StartsWith(p, <<uuid, "/", "s", "r", "c", "/">>)
    /\ EndsWith(p, <<".", "r", "s">>)
    /\ Len(p) - 1 <= 128
    /\ \A i \in 7..(Len(p) - 3) : IsWordChar(p[i]) \/ p[i] = "/" \/ p[i] = "-"

\* C16: every file staging writes is inside the workspace of the task's
\* job, and is the manifest or a source file whose path keeps the rules.
C16_StagingWritesInsideWorkspace ==
    [][\A t \in tasks :
          (t.pc = "build" /\ t \notin tasks')
             => \A p \in DOMAIN fs' :
                   (p \notin DOMAIN fs \/ fs'[p] # fs[p])
                      => /\ InWorkspace(p, t.uuid)
                         /\ p = ManifestPath(t.uuid) \/ StagedSource(p, t.uuid)]_vars

\* Staging wrote the files of a job next to the workspace of another job.
C16_Witness ==
    \E t \in tasks :
        /\ t.pc = "staged"
        /\ \E p \in DOMAIN fs : p[1] = t.uuid
        /\ \E p \in DOMAIN fs : p[1] # t.uuid

\* The entry is whole: a running build without diagnostics and completion
\* time, or a finished build with both.
WholeEntry(e) ==
    \/ e.status = "Building" /\ e.stderr = None /\ e.completed_at = None
    \/ e.status \in {"Success", "Failed"} /\ e.stderr # None /\ e.completed_at # None

\* C17: whatever start_build and complete_build calls run beside it, an
\* entry get_build returns is whole, never partly updated.
C17_GetReturnsSnapshot ==
    \A c \in tasks :
        (c.op = "get_build" /\ c.pc = "ret" /\ c.ret # None) => WholeEntry(c.ret[1])

\* get_build returned a finished entry while a writer waits for the lock.
C17_Witness ==
    \E c \in tasks :
        /\ c.op = "get_build"
        /\ c.pc = "ret"
        /\ c.ret # None
        /\ c.ret[1].status = "Success"
        /\ \E d \in tasks : d.op = "complete_build" /\ d.pc = "call"

\* C18: a complete_build that finds no entry for its uuid assigns nothing
\* and returns: the registry stays as the call found it.
C18_CompleteUnknownIsNoOp ==
    \A c \in tasks :
        (c.op = "complete_build" /\ c.pc # "call" /\ c.uuid \notin DOMAIN c.before)
            => builds = c.before /\ c.pc \in {"locked", "ret"}

\* complete_build returns from a call for a uuid the registry, which holds
\* another job, does not know.
C18_Witness ==
    \E c \in tasks :
        /\ c.op = "complete_build"
        /\ c.pc = "ret"
        /\ c.uuid \notin DOMAIN c.before
        /\ builds # <<>>

\* C19: for a uuid the registry does not hold, get_build returns None and
\* leaves the registry as it is, and build_status answers 404 not_found.
C19_UnknownIdIsNotFound ==
    [][\A c \in tasks :
          (/\ c.op = "get_build"
           /\ c.pc = "locked"
           /\ c.uuid \notin DOMAIN builds
           /\ c \notin tasks')
             => /\ builds' = builds
                /\ \E d \in tasks' : d.seq = c.seq /\ d.ret = None
                /\ StatusAnswer(builds', c.uuid).code = 404
                /\ StatusAnswer(builds', c.uuid).body[1].status = "not_found"
                /\ StatusAnswer(builds', c.uuid).body[1].status
                      \notin {"queued", "building", "success", "failed"}]_vars

\* get_build returned None for a uuid while the registry holds another job.
C19_Witness ==
    \E c \in tasks :
        /\ c.op = "get_build"
        /\ c.pc = "ret"
        /\ c.ret = None
        /\ builds # <<>>

\* C20: the start_build of a submission has happened before its background
\* task exists: the registry holds an entry for the task's uuid, started by
\* this submission or by a later one, whenever the task calls complete_build.
C20_RegisterPrecedesComplete ==
    \A t \in tasks :
        /\ t.uuid \in DOMAIN builds
        /\ builds[t.uuid].started_at.by = "start_build"
        /\ builds[t.uuid].started_at.seq >= t.seq

\* A background task is about to call complete_build.
C20_Witness ==
    \E t \in tasks : t.pc = "ret" /\ builds[t.uuid].started_at.seq = t.seq

\* The directories in which the scan finds a binary of that name.
Peers(safe) == {d \in ProgramDirs(fs) : BinaryPath(d, safe) \in DOMAIN fs}

\* C21: get_binary returns the file at the job's own path when it exists;
\* when it does not, the binary of that name of one of the directories that
\* have one; and it goes to the remote store only when no directory has one.
C21_TieredResolution ==
    \A u \in Uuids, n \in ArtifactNames, reachable \in BOOLEAN :
        \A r \in get_binary(fs, gcs, reachable, u, n) :
            LET safe == Sanitize(n)
                own == BinaryPath(u, safe)
                object == ObjectName(u, safe)
            IN  /\ own \in DOMAIN fs
                      => r.ok /\ r.tier = "exact" /\ ~r.remote /\ r.bytes = <<fs[own]>>
                /\ (own \notin DOMAIN fs /\ Peers(safe) # {})
                      => /\ r.ok /\ r.tier = "scan" /\ ~r.remote
                         /\ \E d \in Peers(safe) : r.bytes = <<fs[BinaryPath(d, safe)]>>
                /\ (own \notin DOMAIN fs /\ Peers(safe) = {})
                      => /\ r.remote
                         /\ r.ok <=> (reachable /\ object \in DOMAIN gcs)
                         /\ r.ok => r.bytes = <<gcs[object]>>

\* A job's own directory, another directory and the bucket all hold a
\* binary of the name, and the two directories hold different bytes.
C21_Witness ==
    \E u \in Uuids, d \in Uuids :
        LET safe == Sanitize(NameDash)
        IN  /\ d # u
            /\ BinaryPath(u, safe) \in DOMAIN fs
            /\ BinaryPath(d, safe) \in DOMAIN fs
            /\ ObjectName(u, safe) \in DOMAIN gcs
            /\ fs[BinaryPath(d, safe)] # fs[BinaryPath(u, safe)]

\* The bodies of the answers deploy may give with the artifact's bytes.
Served(f, g, u, n) == {a.body : a \in {x \in DeployAnswers(f, g, u, n) : x.code = 200}}

\* C22: while a job is recorded as Success, every deploy of its uuid and
\* program name that returns bytes returns the same bytes, whichever tier
\* serves it and whatever is built in between.
C22_ResolutionIsIdempotent ==
    [][\A u \in DOMAIN builds :
          (/\ builds[u].status = "Success"
           /\ u \in DOMAIN builds'
           /\ builds'[u].status = "Success")
             => \A a \in Served(fs, gcs, u, builds[u].program_name),
                   b \in Served(fs', gcs', u, builds'[u].program_name) : a = b]_vars

\* C23: a workspace directory belongs to one build task at a time: no two
\* live tasks have the same uuid.
C23_ExclusiveWorkspace ==
    \A t1 \in tasks, t2 \in tasks : t1.uuid = t2.uuid => t1 = t2

\* C24: a build request with a uuid that does not parse is answered with an
\* error and registers and spawns nothing; a request without a uuid is
\* answered with a fresh uuid and status building.
C24_InvalidUuidRejected ==
    /\ \A u \in DOMAIN builds : IsUuid(u)
    /\ \A t \in tasks : IsUuid(t.uuid)
    /\ \A n \in ProgramNames :
          /\ \A a \in BuildAnswers(Some(BadUuid), n) : a.code # 200
          /\ \A a \in BuildAnswers(None, n) :
                /\ a.code = 200
                /\ a.body[1].status = "building"
                /\ IsUuid(a.body[1].uuid)
                /\ a.body[1].uuid \notin DOMAIN builds

\* Builds were admitted, and a request without a uuid can still be given a
\* fresh one.
C24_Witness ==
    /\ builds # <<>>
    /\ tasks # {}
    /\ BuildAnswers(None, NameDash) # {}
    /\ BuildAnswers(Some(BadUuid), NameDash) # {}

\* C25: an entry of the registry is never deleted: a uuid whose status was
\* reported is never reported as not_found later.
C25_EntriesNeverDeleted ==
    [][\A u \in Uuids :
          StatusOf(u) # "not_found"
             => StatusAnswer(builds', u).body[1].status # "not_found"]_vars

\* A job has finished and another job is being built.
C25_Witness ==
    \E u \in DOMAIN builds :
        /\ builds[u].status \in {"Success", "Failed"}
        /\ \E t \in tasks : t.uuid # u

\* C26: every entry of the registry is Building, Success or Failed, and
\* the status reported for it is building, success or failed: never Queued.
C26_NeverQueued ==
    \A u \in DOMAIN builds :
        /\ builds[u].status \in {"Building", "Success", "Failed"}
        /\ StatusOf(u) \in {"building", "success", "failed"}

\* One job is being built and another has finished.
C26_Witness ==
    \E u \in DOMAIN builds, v \in DOMAIN builds :
        builds[u].status = "Building" /\ builds[v].status \in {"Success", "Failed"}

\* C27: the error of a rejected file set names its cause: the limit when
\* there are too many files, the offending path when a path is invalid.
C27_RejectionNamesCause ==
    \A t \in tasks :
        Rejected(t) =>
            LET files == Payload[t.files]
                err == t.ret[1].err
            IN  IF TooManyFiles(files)
                THEN Contains(err, <<ToString(MAX_FILE_AMOUNT)>>)
                ELSE \E i \in 1..Len(files) :
                        ~IsValidPath(files[i][1]) /\ Contains(err, files[i][1])

\* A name is an identifier: not empty, not starting with a digit, made of
\* letters, digits and "_".
ValidIdentifier(name) ==
    /\ name # <<>>
    /\ name[1] \notin Digits
    /\ \A i \in 1..Len(name) : IsWordChar(name[i])

\* C28: whatever the program name, the package name staging writes to the
\* manifest is the name with "_" for each character that is not
\* alphanumeric, and is a valid identifier.
C28_SanitizedNameIsIdentifier ==
    \A t \in tasks :
        t.pc # "build" /\ ~Rejected(t) =>
            LET package == fs[ManifestPath(t.uuid)].package
            IN  /\ Len(package) = Len(t.program_name)
                /\ \A i \in 1..Len(package) :
                      package[i] = IF IsAlphanumeric(t.program_name[i])
                                   THEN t.program_name[i] ELSE "_"
                /\ ValidIdentifier(package)

\* C29: when the toolchain cannot be spawned the job is recorded as Failed,
\* with diagnostics that hold the text of the spawn error.
C29_SpawnFailureIsFailed ==
    (tasks = {} /\ proc = NoProc) =>
        /\ builds["u1"].status = "Failed"
        /\ builds["u1"].stderr # None
        /\ Contains(builds["u1"].stderr[1], <<"No such file or directory (os error 2)">>)

\* The build whose spawn failed has completed.
C29_Witness == tasks = {} /\ proc = NoProc /\ builds["u1"].completed_at # None

\* C30: the diagnostics recorded for a job hold the lines read from the
\* child's stdout and the lines read from its stderr, each in order.
C30_DiagnosticsHoldBothStreams ==
    RunCompleted =>
        /\ builds["u1"].stderr # None
        /\ Contains(builds["u1"].stderr[1], proc.stdout_lines)
        /\ Contains(builds["u1"].stderr[1], proc.stderr_lines)

\* C31: after its registration the entry of a job id changes value at most
\* once: an entry that complete_build has written stays as it is until the
\* id is registered again.
C31_EntryMutatedOnce ==
    [][\A u \in DOMAIN builds :
          (/\ builds[u].completed_at # None
           /\ u \in DOMAIN builds'
           /\ builds'[u].started_at = builds[u].started_at)
             => builds'[u] = builds[u]]_vars

\* C38: the entry of a job id ends up holding what the task of the build
\* submitted last recorded: once that task has recorded its result, the
\* status, diagnostics and program name of the entry are not changed by
\* the task of a build submitted earlier.
C38_LastSubmittedWins ==
    [][\A u \in DOMAIN builds :
          (/\ builds[u].completed_at =
                 Some(Instant("complete_build", builds[u].started_at.seq))
           /\ u \in DOMAIN builds'
           /\ builds'[u].started_at = builds[u].started_at)
             => /\ builds'[u].status = builds[u].status
                /\ builds'[u].stderr = builds[u].stderr
                /\ builds'[u].program_name = builds[u].program_name]_vars

\* C32: create_program_address returns MaxSeedLengthExceeded exactly when
\* more than 16 seeds are given or a seed is longer than 32 bytes.
C32_SeedLimits ==
    proc.pc = "created" =>
        (proc.ret = PubkeyErr("MaxSeedLengthExceeded")
           <=> \/ Len(proc.seeds) > 16
               \/ \E i \in 1..Len(proc.seeds) : Len(proc.seeds[i]) > 32)

\* Sixteen seeds of which none is too long: the call is not refused for
\* its seeds' lengths.
C32_Witness ==
    /\ proc.pc = "created"
    /\ Len(proc.seeds) = 16
    /\ proc.ret # PubkeyErr("MaxSeedLengthExceeded")

\* The digest derived from the seeds with the bump seed b appended.
BumpDigest(b) == Digest(Concat(Append(proc.seeds, <<b>>)) \o proc.program_id)

\* C33: when try_find_program_address returns Some((address, bump)),
\* create_program_address of the seeds with the bump appended is
\* Ok(address) and every bump above it up to 255 derives an on-curve
\* digest; when no bump of 255 down to 1 derives an off-curve digest it
\* returns None.
C33_FindProgramAddress ==
    proc.pc = "found" =>
        /\ proc.ret # None =>
              LET address == proc.ret[1][1]
                  bump == proc.ret[1][2]
              IN  /\ bump \in 1..255
                  /\ create_program_address(proc.curve,
                        Append(proc.seeds, <<bump>>), proc.program_id)
                       = PubkeyOk(address)
                  /\ ~is_on_curve(proc.curve, BumpDigest(bump))
                  /\ \A b \in (bump + 1)..255 : is_on_curve(proc.curve, BumpDigest(b))
        /\ (\A b \in 1..255 : is_on_curve(proc.curve, BumpDigest(b)))
              => proc.ret = None

\* A search that passed over on-curve digests before it found its bump.
C33_Witness ==
    /\ proc.pc = "found"
    /\ proc.ret # None
    /\ proc.ret[1][2] < 255

\* The object names get_binary(uuid, name) reads from the bucket: those
\* for which a bucket holding only that object is resolved from it.
ResolveKeys(uuid, name) ==
    {k \in {ObjectName(u, n) : u \in Uuids,
                               n \in ArtifactNames \cup {Sanitize(m) : m \in ArtifactNames}} :
        get_binary(<<>>, k :> "probe", TRUE, uuid, name) = {BinaryOk("probe", "remote")}}

\* C34: the object name a build's upload writes is the one get_binary
\* reads for the job, given the name as it was submitted or the sanitized
\* name.
C34_PublishKeyIsResolveKey ==
    [][\A up \in uploads' \ uploads : \A t \in tasks :
          (t.pc = "staged" /\ t \notin tasks' /\ t.uuid = up.uuid)
             => /\ ResolveKeys(t.uuid, t.program_name)
                      = {ObjectName(up.uuid, up.program_name)}
                /\ ResolveKeys(t.uuid, Sanitize(t.program_name))
                      = {ObjectName(up.uuid, up.program_name)}]_vars

\* An upload was started for a build whose submitted name is not its
\* sanitized name.
C34_Witness ==
    \E up \in uploads, t \in tasks :
        /\ t.pc = "ret"
        /\ t.uuid = up.uuid
        /\ up.program_name = Sanitize(t.program_name)
        /\ up.program_name # t.program_name

\* C35: staging a file set that passes validation into a workspace that
\* was staged before does not fail, and afterwards every submitted path
\* and the manifest hold the content of this submission.
C35_RestagingOverwrites ==
    [][\A t \in tasks :
          (/\ t.pc = "build"
           /\ t \notin tasks'
           /\ ~InvalidFiles(Payload[t.files])
           /\ ManifestPath(t.uuid) \in DOMAIN fs)
             => LET files == Payload[t.files]
                IN  /\ [t EXCEPT !.pc = "staged"] \in tasks'
                    /\ fs'[ManifestPath(t.uuid)] = CargoToml(Sanitize(t.program_name))
                    /\ \A i \in 1..Len(files) :
                          (\A j \in (i + 1)..Len(files) : files[j][1] # files[i][1])
                             => fs'[ProgramFile(t.uuid, TrimStartSlash(files[i][1]))]
                                  = files[i][2]]_vars

\* The workspace of the earlier build was staged again, and its source
\* file and manifest are no longer what the earlier build wrote.
C35_Witness ==
    \E t \in tasks :
        /\ t.pc = "staged"
        /\ ManifestPath(t.uuid) \in DOMAIN PriorFs
        /\ fs[ManifestPath(t.uuid)] # PriorFs[ManifestPath(t.uuid)]
        /\ \E p \in DOMAIN PriorFs : p # ManifestPath(t.uuid) /\ fs[p] # PriorFs[p]

\* C36: while a get_build of one job id holds its read guard, a
\* start_build or complete_build of another job id that waits for the lock
\* can take it.
C36_ReadsDoNotBlockOtherWriters ==
    \A c \in tasks, d \in tasks :
        (/\ c.op = "get_build"
         /\ c.pc # "call"
         /\ d.op \in {"start_build", "complete_build"}
         /\ d.pc = "call"
         /\ d.uuid # c.uuid)
            => ENABLED LockWrite(d)

\* C37: every registered job that is Building eventually is not: whichever
\* way build() ends, the task calls complete_build for the job's id.
C37_EveryJobLeavesBuilding ==
    \A u \in Uuids :
        (u \in DOMAIN builds /\ builds[u].status = "Building")
            ~> (u \in DOMAIN builds /\ builds[u].status # "Building")

\* The task has ended after a filesystem error and its job is Failed.
C37_Witness ==
    /\ tasks = {}
    /\ \E u \in DOMAIN builds :
          /\ builds[u].status = "Failed"
          /\ builds[u].stderr = Some(<<"Build failed: ", "Permission denied (os error 13)">>)
    /\ \A u \in DOMAIN builds : builds[u].status # "Building"

\* C39: an entry is Success only if its diagnostics hold "Finished" and
\* "release" and do not hold "error: could not compile"; a finished job
\* whose diagnostics hold "error: could not compile" is Failed.
C39_SuccessNeedsCleanMarker ==
    \A u \in DOMAIN builds :
        LET e == builds[u]
        IN  /\ e.status = "Success" =>
                  /\ e.stderr # None
                  /\ Contains(e.stderr[1], <<"Finished">>)
                  /\ Contains(e.stderr[1], <<"release">>)
                  /\ ~Contains(e.stderr[1], <<"error: could not compile">>)
            /\ (e.stderr # None /\ Contains(e.stderr[1], <<"error: could not compile">>))
                  => e.status = "Failed"

\* A job is Failed whose diagnostics hold the marker and the compile
\* error.
C39_Witness ==
    \E u \in DOMAIN builds :
        /\ builds[u].status = "Failed"
        /\ builds[u].stderr # None
        /\ Contains(builds[u].stderr[1], <<"Finished">>)
        /\ Contains(builds[u].stderr[1], <<"release">>)
        /\ Contains(builds[u].stderr[1], <<"error: could not compile">>)

\* C40: a step of start_build, complete_build or get_build on a job id
\* leaves the entries of every other id as they are; a step of get_build
\* changes no entry; a step of complete_build leaves the uuid and
\* started_at of its own entry as they are; a call's arrival changes
\* nothing.
C40_FrameEffects ==
    [][/\ \A c \in tasks :
             c \notin tasks' =>
                /\ \A u \in ((DOMAIN builds) \cup (DOMAIN builds')) \ {c.uuid} :
                      /\ u \in DOMAIN builds
                      /\ u \in DOMAIN builds'
                      /\ builds'[u] = builds[u]
                /\ c.op = "get_build" => builds' = builds
                /\ (c.op = "complete_build" /\ c.uuid \in DOMAIN builds) =>
                      /\ c.uuid \in DOMAIN builds'
                      /\ builds'[c.uuid].uuid = builds[c.uuid].uuid
                      /\ builds'[c.uuid].started_at = builds[c.uuid].started_at
       /\ tasks \subseteq tasks' => builds' = builds]_vars

\* A complete_build has written its entry and a start_build has inserted
\* its own, each beside the entry of another id.
C40_Witness ==
    /\ \E c \in tasks :
          /\ c.op = "start_build"
          /\ c.pc = "ret"
          /\ \E u \in DOMAIN builds : u # c.uuid
    /\ \E u \in DOMAIN builds, v \in DOMAIN builds :
          u # v /\ builds[u].completed_at # None

==========================================================================
